---------------------------- MODULE Spec2Model ----------------------------
(***************************************************************************)
(* A model of the tree-walking evaluator of src/interp.py (function eval)  *)
(* and of its driver parse_and_run in src/parse_run.py.                    *)
(*                                                                         *)
(* Expressions are tagged tuples, one shape per dataclass of interp.py:    *)
(*   <<"Lit", v>>  <<"Add", l, r>>  <<"Neg", e>>  <<"Let", name, ve, b>>   *)
(*   <<"Name", n>> <<"If", c, t, e>> <<"Replace", s, t, r>>                *)
(*   <<"Letfun", name, param, body, in>>  <<"App", f, a>>                  *)
(*   <<"Assign", name, ve>>  <<"Seq", a, b>>  <<"Show", e>>  <<"Read">>    *)
(* Python values are tagged tuples too:                                    *)
(*   <<"Int", i>>  <<"Bool", b>>  <<"Str", <<c1,...,cn>>>>                 *)
(*   <<"Fun", param, body, envRef>>                 (a FunDef instance)    *)
(*   <<"Err", class, message>>                      (a raised exception)   *)
(* Python integers are unbounded, so no width is applied to Int.           *)
(* A dict is a total function on Names whose absent keys map to Absent.    *)
(* Environments are Python dict OBJECTS: an environment is a reference     *)
(* (index) into heap, so that aliasing and in-place mutation are visible.  *)
(***************************************************************************)
EXTENDS Integers, Sequences, FiniteSets, TLC

VARIABLES prog, tty, stdin, pc, result

vars == <<prog, tty, stdin, pc, result>>

----------------------------------------------------------------------------
(* Bounds of the model *)

\* Int literals of the Div family range over -MaxLit..MaxLit
MaxLit == 4
\* the factorial program is applied to 0..MaxFact
MaxFact == 5
\* lines available on standard input
MaxInput == 1

----------------------------------------------------------------------------
(* Values *)

Names == {"x", "y", "n", "f", "g"}

Absent == <<"Absent">>

IntV(i) == <<"Int", i>>
BoolV(b) == <<"Bool", b>>
StrV(s) == <<"Str", s>>
FunDef(param, body, env) == <<"Fun", param, body, env>>
Err(class, msg) == <<"Err", class, msg>>

Tag(v) == v[1]
IsErr(v) == Tag(v) = "Err"
IsBool(v) == Tag(v) = "Bool"
IsStr(v) == Tag(v) = "Str"
IsFunDef(v) == Tag(v) = "Fun"
\* Python's bool is a subclass of int: both take part in arithmetic
IsNum(v) == Tag(v) \in {"Int", "Bool"}
Num(v) == IF Tag(v) = "Bool" THEN (IF v[2] THEN 1 ELSE 0) ELSE v[2]

TypeError(msg) == Err("TypeError", msg)
NameErrorUndefined == Err("NameError", "is not defined")
NameErrorUndeclared == Err("NameError", "Cannot assign to undeclared variable")
ZeroDivisionError == Err("ZeroDivisionError", "Division by zero")
ChainedComparison == Err("SyntaxError", "Chained comparisons are not allowed")
UnsupportedOperand == TypeError("unsupported operand type(s)")

EmptyDict == [k \in Names |-> Absent]

----------------------------------------------------------------------------
(* Python's operators on values *)

RECURSIVE Repeat(_, _)
Repeat(s, k) == IF k <= 0 THEN <<>> ELSE s \o Repeat(s, k - 1)

\* a + b
PyAdd(a, b) ==
    IF IsNum(a) /\ IsNum(b) THEN IntV(Num(a) + Num(b))
    ELSE IF IsStr(a) /\ IsStr(b) THEN StrV(a[2] \o b[2])
    ELSE UnsupportedOperand

\* a - b
PySub(a, b) ==
    IF IsNum(a) /\ IsNum(b) THEN IntV(Num(a) - Num(b))
    ELSE UnsupportedOperand

\* a * b
PyMul(a, b) ==
    IF IsNum(a) /\ IsNum(b) THEN IntV(Num(a) * Num(b))
    ELSE IF IsStr(a) /\ IsNum(b) THEN StrV(Repeat(a[2], Num(b)))
    ELSE IF IsNum(a) /\ IsStr(b) THEN StrV(Repeat(b[2], Num(a)))
    ELSE UnsupportedOperand

\* integer division that rounds toward zero, as C's / does
TruncDiv(a, b) ==
    LET abs(z) == IF z < 0 THEN -z ELSE z
        q == abs(a) \div abs(b)
    IN  IF (a < 0) = (b < 0) THEN q ELSE -q

\* a // b on integers, b # 0, by the sign rule of Python's floor division:
\* the quotient of the magnitudes, lowered by one when the signs differ and
\* the division is inexact
FloorDiv(a, b) ==
    LET abs(z) == IF z < 0 THEN -z ELSE z
        q == abs(a) \div abs(b)
        exact == q * abs(b) = abs(a)
    IN  IF (a < 0) = (b < 0) \/ a = 0 THEN q
        ELSE IF exact THEN -q ELSE -q - 1

\* a // b
PyFloorDiv(a, b) ==
    IF IsNum(a) /\ IsNum(b)
    THEN IF Num(b) = 0 THEN Err("ZeroDivisionError", "integer division or modulo by zero")
         ELSE IntV(FloorDiv(Num(a), Num(b)))
    ELSE UnsupportedOperand

\* -a
PyNeg(a) == IF IsNum(a) THEN IntV(-Num(a)) ELSE TypeError("bad operand type for unary -")

\* lexicographic s < t on strings
RECURSIVE SeqLess(_, _)
SeqLess(s, t) ==
    IF t = <<>> THEN FALSE
    ELSE IF s = <<>> THEN TRUE
    ELSE IF Head(s) # Head(t) THEN Head(s) < Head(t)
    ELSE SeqLess(Tail(s), Tail(t))

\* a < b
PyLt(a, b) ==
    IF IsNum(a) /\ IsNum(b) THEN BoolV(Num(a) < Num(b))
    ELSE IF IsStr(a) /\ IsStr(b) THEN BoolV(SeqLess(a[2], b[2]))
    ELSE TypeError("'<' not supported")

\* a == b.  Numbers compare by value across int and bool; two FunDef
\* instances compare field by field (dataclass __eq__), the env dicts entry
\* by entry through the heap h; a comparison that does not finish within
\* fuel nested dict comparisons is Python's RecursionError.
RECURSIVE PyEqDeep(_, _, _, _)
PyEqDeep(a, b, h, fuel) ==
    IF IsNum(a) /\ IsNum(b) THEN BoolV(Num(a) = Num(b))
    ELSE IF Tag(a) # Tag(b) THEN BoolV(FALSE)
    ELSE IF ~IsFunDef(a) THEN BoolV(a[2] = b[2])
    ELSE IF a = b THEN BoolV(TRUE)
    ELSE IF a[2] # b[2] \/ a[3] # b[3] THEN BoolV(FALSE)
    ELSE IF fuel = 0 THEN Err("RecursionError", "maximum recursion depth exceeded")
    ELSE LET da == h[a[4]]
             db == h[b[4]]
             keys == {k \in Names : da[k] # Absent}
             sub == {PyEqDeep(da[k], db[k], h, fuel - 1) : k \in keys}
         IN  IF keys # {k \in Names : db[k] # Absent} THEN BoolV(FALSE)
             ELSE IF BoolV(FALSE) \in sub THEN BoolV(FALSE)
             ELSE IF \E r \in sub : IsErr(r)
                  THEN Err("RecursionError", "maximum recursion depth exceeded")
             ELSE BoolV(TRUE)

EqFuel == 3

PyEq(a, b, h) == PyEqDeep(a, b, h, EqFuel)

\* does s start with t
IsPrefix(t, s) == Len(t) <= Len(s) /\ SubSeq(s, 1, Len(t)) = t

\* str.replace(old, new): every non-overlapping occurrence, left to right;
\* an empty old matches before every character and at the end
RECURSIVE StrReplace(_, _, _)
StrReplace(s, old, new) ==
    IF old = <<>>
    THEN IF s = <<>> THEN new
         ELSE new \o <<Head(s)>> \o StrReplace(Tail(s), old, new)
    ELSE IF Len(s) < Len(old) THEN s
    ELSE IF IsPrefix(old, s)
         THEN new \o StrReplace(SubSeq(s, Len(old) + 1, Len(s)), old, new)
    ELSE <<Head(s)>> \o StrReplace(Tail(s), old, new)

\* s[::-1]
RECURSIVE Reverse(_)
Reverse(s) == IF s = <<>> THEN <<>> ELSE Reverse(Tail(s)) \o <<Head(s)>>


----------------------------------------------------------------------------
(* The evaluator's state *)

\* What one call of eval can see and change besides its arguments:
\*   store  the dict passed as the store argument (mutated in place)
\*   heap   every environment dict allocated so far, by reference
\*   out    the lines print has written, oldest first
\*   stdin  the lines not yet read from standard input
\*   tty    sys.stdin.isatty()
\*   log    a history of the calls made, kept for stating properties only
\* The result of a call is [val |-> value returned or exception raised,
\* st |-> the state it leaves].
Ret(v, st) == [val |-> v, st |-> st]

Log(st, ev) == [st EXCEPT !.log = Append(@, ev)]

\* new_env = env: a second name for the same dict object
Alias(h, ref) == [heap |-> h, ref |-> ref]

\* env.copy(): a new dict object with the same entries
Copy(h, ref) == [heap |-> Append(h, h[ref]), ref |-> Len(h) + 1]

\* dynamic scoping: the frame of a call copied from the caller's environment
CallerEnv(func, env) == env

\* the environment a call's frame is copied from: func.env
CallEnv(func, env) == func[4]

\* a FunDef that captures the environment Letfun was evaluated in, which
\* does not hold the function's own name
EnclosingEnv(new_env, env) == env

\* the environment stored in the FunDef that Letfun builds: new_env itself,
\* the dict that is about to receive the binding of the function's name
ClosureEnv(new_env, env) == new_env

\* an Assign that never raises
NeverUndeclared(name, store) == FALSE

\* Assign's second test: name not in store
Undeclared(name, store) == store[name] = Absent

\* what Read returns when standard input is not a terminal
ReadDefault == 42

RECURSIVE Eval(_, _, _)

\* eval(expr, env): the store parameter defaults to a new empty dict, which
\* the caller never sees; the caller's own store is untouched
EvalFresh(e, env, st) ==
    LET r == Eval(e, env, [st EXCEPT !.store = EmptyDict])
    IN  [r EXCEPT !.st.store = st.store]

\* the operator each of Add, Sub, Mul and Lt applies
PyBinary(op, a, b) ==
    CASE op = "Add" -> PyAdd(a, b)
      [] op = "Sub" -> PySub(a, b)
      [] op = "Mul" -> PyMul(a, b)
      [] op = "Lt" -> PyLt(a, b)

\* Add, Sub, Mul, Lt: eval(left, env) <op> eval(right, env)
EvalArith(op, l, r, env, st) ==
    LET a == EvalFresh(l, env, st)
        b == EvalFresh(r, env, a.st)
    IN  IF IsErr(a.val) THEN a
        ELSE IF IsErr(b.val) THEN b
        ELSE Ret(PyBinary(op, a.val, b.val), b.st)

EvalDiv(l, r, env, st) ==
    LET b == EvalFresh(r, env, st)
        a == EvalFresh(l, env, b.st)
    IN  IF IsErr(b.val) THEN b
        ELSE IF IsNum(b.val) /\ Num(b.val) = 0 THEN Ret(ZeroDivisionError, b.st)
        ELSE IF IsErr(a.val) THEN a
        ELSE Ret(PyFloorDiv(a.val, b.val), a.st)

EvalNeg(e, env, st) ==
    LET a == EvalFresh(e, env, st)
    IN  IF IsErr(a.val) THEN a ELSE Ret(PyNeg(a.val), a.st)

\* a short-circuiting And, as most languages have it
EvalAndShortCircuit(l, r, env, st) ==
    LET a == Eval(l, env, st)
        b == Eval(r, env, a.st)
    IN  IF IsErr(a.val) THEN a
        ELSE IF ~IsBool(a.val) THEN Ret(TypeError("Operands of '&&' must be boolean"), a.st)
        ELSE IF ~a.val[2] THEN a
        ELSE IF IsErr(b.val) THEN b
        ELSE IF ~IsBool(b.val) THEN Ret(TypeError("Operands of '&&' must be boolean"), b.st)
        ELSE b

EvalAnd(l, r, env, st) ==
    LET a == Eval(l, env, st)
        b == Eval(r, env, a.st)
    IN  IF IsErr(a.val) THEN a
        ELSE IF IsErr(b.val) THEN b
        ELSE IF ~IsBool(a.val) \/ ~IsBool(b.val)
             THEN Ret(TypeError("Operands of '&&' must be boolean"), b.st)
        ELSE Ret(BoolV(a.val[2] /\ b.val[2]), b.st)

EvalOr(l, r, env, st) ==
    LET a == Eval(l, env, st)
        b == Eval(r, env, a.st)
    IN  IF IsErr(a.val) THEN a
        ELSE IF IsErr(b.val) THEN b
        ELSE IF ~IsBool(a.val) \/ ~IsBool(b.val)
             THEN Ret(TypeError("Operands of '||' must be boolean"), b.st)
        ELSE Ret(BoolV(a.val[2] \/ b.val[2]), b.st)

EvalNot(e, env, st) ==
    LET a == Eval(e, env, st)
    IN  IF IsErr(a.val) THEN a
        ELSE IF ~IsBool(a.val) THEN Ret(TypeError("Operand of '!' must be boolean"), a.st)
        ELSE Ret(BoolV(~a.val[2]), a.st)


\* the record kept in the log when a scope-introducing form returns or
\* raises: the heap it was entered with and the heap it leaves
Exit(form, env, st, r) ==
    [r EXCEPT !.st = Log(@, [kind |-> "Scope", form |-> form, env |-> env,
                             before |-> st.heap, after |-> r.st.heap])]

EvalLet(name, value_expr, body, env, st) ==
    LET c == Copy(st.heap, env)
        new_env == c.ref
        v == EvalFresh(value_expr, new_env, [st EXCEPT !.heap = c.heap])
        st2 == [v.st EXCEPT !.heap[new_env][name] = v.val]
    IN  Exit("Let", env, st,
             IF IsErr(v.val) THEN v ELSE EvalFresh(body, new_env, st2))

EvalName(name, env, st) ==
    IF st.heap[env][name] = Absent THEN Ret(NameErrorUndefined, st)
    ELSE Ret(st.heap[env][name], st)

\* the chained-comparison test made only after both operands are evaluated
EvalEqCheckAfter(l, r, env, st) ==
    LET a == EvalFresh(l, env, st)
        b == EvalFresh(r, env, a.st)
    IN  IF IsErr(a.val) THEN a
        ELSE IF IsErr(b.val) THEN b
        ELSE IF l[1] \in {"Eq", "Lt"} THEN Ret(ChainedComparison, b.st)
        ELSE Ret(PyEq(a.val, b.val, b.st.heap), b.st)

EvalEq(l, r, env, st) ==
    LET a == EvalFresh(l, env, st)
        b == EvalFresh(r, env, a.st)
    IN  IF l[1] \in {"Eq", "Lt"} THEN Ret(ChainedComparison, st)
        ELSE IF IsErr(a.val) THEN a
        ELSE IF IsErr(b.val) THEN b
        ELSE Ret(PyEq(a.val, b.val, b.st.heap), b.st)

EvalIf(cond, then_branch, else_branch, env, st) ==
    LET c == Eval(cond, env, st)
    IN  IF IsErr(c.val) THEN c
        ELSE IF ~IsBool(c.val)
             THEN Ret(TypeError("Condition of 'if' must be boolean"), c.st)
        ELSE IF c.val[2] THEN Eval(then_branch, env, c.st)
        ELSE Eval(else_branch, env, c.st)

EvalConcat(l, r, env, st) ==
    LET a == EvalFresh(l, env, st)
        b == EvalFresh(r, env, a.st)
    IN  IF IsErr(a.val) THEN a
        ELSE IF IsErr(b.val) THEN b
        ELSE IF IsStr(a.val) /\ IsStr(b.val) THEN Ret(StrV(a.val[2] \o b.val[2]), b.st)
        ELSE Ret(TypeError("Concatenation requires string operands"), b.st)

EvalReplace(string, target, replacement, env, st) ==
    LET s == EvalFresh(string, env, st)
        t == EvalFresh(target, env, s.st)
        r == EvalFresh(replacement, env, t.st)
    IN  IF IsErr(s.val) THEN s
        ELSE IF IsErr(t.val) THEN t
        ELSE IF IsErr(r.val) THEN r
        ELSE IF IsStr(s.val) /\ IsStr(t.val) /\ IsStr(r.val)
             THEN Ret(StrV(StrReplace(s.val[2], t.val[2], r.val[2])), r.st)
        ELSE Ret(TypeError("Replace requires string operands"), r.st)

EvalLetfun(name, param, body, in_expr, env, st) ==
    LET c == Copy(st.heap, env)
        new_env == c.ref
        fn == FunDef(param, body, ClosureEnv(new_env, env))
        st1 == Log([st EXCEPT !.heap = [c.heap EXCEPT ![new_env][name] = fn]],
                   [kind |-> "Letfun", name |-> name, fn |-> fn, env |-> new_env])
    IN  Exit("Letfun", env, st, EvalFresh(in_expr, new_env, st1))

EvalApp(fun_expr, arg_expr, env, st) ==
    LET func == EvalFresh(fun_expr, env, st)
        arg == EvalFresh(arg_expr, env, func.st)
        c == Copy(arg.st.heap, CallEnv(func.val, env))
        new_env == c.ref
        heap2 == [c.heap EXCEPT ![new_env][func.val[2]] = arg.val]
        st2 == Log([arg.st EXCEPT !.heap = heap2],
                   [kind |-> "App", caller |-> env, fn |-> func.val, arg |-> arg.val,
                    captured |-> arg.st.heap[func.val[4]], frame |-> heap2[new_env]])
    IN  Exit("App", env, st,
             IF IsErr(func.val) THEN func
             ELSE IF IsErr(arg.val) THEN arg
             ELSE IF IsFunDef(func.val) THEN EvalFresh(func.val[3], new_env, st2)
             ELSE Ret(TypeError("is not a function"), arg.st))

EvalAssign(name, value_expr, env, st) ==
    LET declared == st.heap[env][name] # Absent
        promoted == IF declared /\ st.store[name] = Absent
                    THEN [st EXCEPT !.store[name] = st.heap[env][name]]
                    ELSE st
        v == Eval(value_expr, env, promoted)
        ev(val) == [kind |-> "Assign", name |-> name, declared |-> declared, val |-> val]
    IN  IF Undeclared(name, promoted.store)
        THEN Ret(NameErrorUndeclared, Log(promoted, ev(NameErrorUndeclared)))
        ELSE IF IsErr(v.val) THEN [v EXCEPT !.st = Log(@, ev(v.val))]
        ELSE Ret(v.val, Log([v.st EXCEPT !.store[name] = v.val], ev(v.val)))

EvalSeq(first, second, env, st) ==
    LET a == Eval(first, env, st)
    IN  IF IsErr(a.val) THEN a ELSE Eval(second, env, a.st)

EvalShow(e, env, st) ==
    LET r == Eval(e, env, st)
    IN  IF IsErr(r.val) THEN r
        ELSE Ret(r.val, [r.st EXCEPT !.out = Append(@, r.val)])

\* a line of standard input is <<"int", i>>, the decimal text of i, or
\* <<"text">>, a line int() rejects
EvalRead(st) ==
    LET st1 == Log(st, [kind |-> "Read"])
    IN  IF ~st.tty THEN Ret(IntV(ReadDefault), st1)
        ELSE IF st.stdin = <<>> THEN Ret(Err("EOFError", "EOF when reading a line"), st1)
        ELSE IF Head(st.stdin)[1] = "int"
             THEN Ret(IntV(Head(st.stdin)[2]), [st1 EXCEPT !.stdin = Tail(@)])
        ELSE Ret(Err("ValueError", "Invalid input, expected an integer"),
                 [st1 EXCEPT !.stdin = Tail(@)])

EvalReverseStr(e, env, st) ==
    LET s == EvalFresh(e, env, st)
    IN  IF IsErr(s.val) THEN s
        ELSE IF IsStr(s.val) THEN Ret(StrV(Reverse(s.val[2])), s.st)
        ELSE Ret(TypeError("Invalid operand for reverse function, expected string"), s.st)

EvalLengthStr(e, env, st) ==
    LET s == EvalFresh(e, env, st)
    IN  IF IsErr(s.val) THEN s
        ELSE IF IsStr(s.val) THEN Ret(IntV(Len(s.val[2])), s.st)
        ELSE Ret(TypeError("Invalid operand for length function, expected string"), s.st)

\* eval(expr, env, store): the match statement
Eval(e, env, st) ==
    CASE e[1] = "Lit" -> Ret(e[2], st)
      [] e[1] = "Add" -> EvalArith("Add", e[2], e[3], env, st)
      [] e[1] = "Sub" -> EvalArith("Sub", e[2], e[3], env, st)
      [] e[1] = "Mul" -> EvalArith("Mul", e[2], e[3], env, st)
      [] e[1] = "Div" -> EvalDiv(e[2], e[3], env, st)
      [] e[1] = "Neg" -> EvalNeg(e[2], env, st)
      [] e[1] = "And" -> EvalAnd(e[2], e[3], env, st)
      [] e[1] = "Or" -> EvalOr(e[2], e[3], env, st)
      [] e[1] = "Not" -> EvalNot(e[2], env, st)
      [] e[1] = "Let" -> EvalLet(e[2], e[3], e[4], env, st)
      [] e[1] = "Name" -> EvalName(e[2], env, st)
      [] e[1] = "Eq" -> EvalEq(e[2], e[3], env, st)
      [] e[1] = "Lt" -> EvalArith("Lt", e[2], e[3], env, st)
      [] e[1] = "If" -> EvalIf(e[2], e[3], e[4], env, st)
      [] e[1] = "Concat" -> EvalConcat(e[2], e[3], env, st)
      [] e[1] = "Replace" -> EvalReplace(e[2], e[3], e[4], env, st)
      [] e[1] = "Letfun" -> EvalLetfun(e[2], e[3], e[4], e[5], env, st)
      [] e[1] = "App" -> EvalApp(e[2], e[3], env, st)
      [] e[1] = "Assign" -> EvalAssign(e[2], e[3], env, st)
      [] e[1] = "Seq" -> EvalSeq(e[2], e[3], env, st)
      [] e[1] = "Show" -> EvalShow(e[2], env, st)
      [] e[1] = "Read" -> EvalRead(st)
      [] e[1] = "ReverseStr" -> EvalReverseStr(e[2], env, st)
      [] e[1] = "LengthStr" -> EvalLengthStr(e[2], env, st)
      [] OTHER -> Ret(Err("BaseException", "Unknown expression type"), st)


----------------------------------------------------------------------------
(* Expressions: the dataclasses of interp.py *)

Lit(v) == <<"Lit", v>>
Add(l, r) == <<"Add", l, r>>
Sub(l, r) == <<"Sub", l, r>>
Mul(l, r) == <<"Mul", l, r>>
Div(l, r) == <<"Div", l, r>>
Neg(e) == <<"Neg", e>>
And(l, r) == <<"And", l, r>>
Or(l, r) == <<"Or", l, r>>
Not(e) == <<"Not", e>>
Let(name, value_expr, body) == <<"Let", name, value_expr, body>>
Name(n) == <<"Name", n>>
Eq(l, r) == <<"Eq", l, r>>
Lt(l, r) == <<"Lt", l, r>>
If(c, t, e) == <<"If", c, t, e>>
Concat(l, r) == <<"Concat", l, r>>
Replace(s, t, r) == <<"Replace", s, t, r>>
Letfun(name, param, body, in_expr) == <<"Letfun", name, param, body, in_expr>>
App(f, a) == <<"App", f, a>>
Assign(name, value_expr) == <<"Assign", name, value_expr>>
SeqE(first, second) == <<"Seq", first, second>>
Show(e) == <<"Show", e>>
Read == <<"Read">>
ReverseStr(e) == <<"ReverseStr", e>>
LengthStr(e) == <<"LengthStr", e>>

int(i) == Lit(IntV(i))
bool(b) == Lit(BoolV(b))
str(s) == Lit(StrV(s))

----------------------------------------------------------------------------
(* The programs evaluated *)

BinOps == {"Add", "Sub", "Mul", "Div", "And", "Or", "Eq", "Lt", "Concat"}

\* operands of every variant, with and without output, input and assignment
Operands ==
    { int(0), int(3), bool(TRUE), bool(FALSE), str(<<1>>),
      Show(int(1)), Show(int(2)), Show(bool(TRUE)), Show(bool(FALSE)),
      Show(str(<<2>>)), Read, Name("x"),
      SeqE(Show(int(1)), bool(FALSE)), SeqE(Show(int(2)), bool(TRUE)) }

BinaryPrograms == { <<op, l, r>> : op \in BinOps, l \in Operands, r \in Operands }

UnaryPrograms ==
    { <<op, e>> : op \in {"Neg", "Not", "Show", "ReverseStr", "LengthStr"},
                  e \in Operands \cup {str(<<1, 2, 2>>)} }

DivPrograms == { Div(int(a), int(b)) : a \in -MaxLit..MaxLit, b \in -MaxLit..MaxLit }

StrOperands == { str(<<1, 2, 1, 2>>), str(<<1, 2>>), str(<<>>),
                 Show(str(<<1>>)), Show(str(<<2>>)), int(0) }

ReplacePrograms == { Replace(s, t, r) : s \in StrOperands, t \in StrOperands, r \in StrOperands }

IfPrograms ==
    { If(c, t, e) : c \in {bool(TRUE), Show(bool(FALSE)), int(0), Name("x")},
                    t \in {Show(int(1)), int(3)}, e \in {Show(int(2)), Read} }

\* letfun fact(n) = if n == 0 then 1 else n * fact(n - 1) in fact(k) end
Fact(k) ==
    Letfun("f", "n",
           If(Eq(Name("n"), int(0)), int(1),
              Mul(Name("n"), App(Name("f"), Sub(Name("n"), int(1))))),
           App(Name("f"), int(k)))

FactPrograms == { Fact(k) : k \in 0..MaxFact }

Locals == {"x", "y", "n"}

\* a function whose body reads v, called where y is bound by the caller
CallerLet(p, v, y) ==
    Letfun("f", p, Name(v), Let(y, int(1), App(Name("f"), int(0))))

\* a function defined where v is bound, called where y is rebound, with the
\* caller's y as its argument
Captured(p, v, y) ==
    Let(v, int(1),
        Letfun("f", p, Name(v), Let(y, int(2), App(Name("f"), Name(y)))))

\* a function called from the body of a later function g with parameter q
CallerParam(p, v, q) ==
    Letfun("f", p, Name(v),
           Letfun("g", q, App(Name("f"), int(0)), App(Name("g"), int(5))))

ScopePrograms ==
    { CallerLet(p, v, y) : p \in Locals, v \in Locals, y \in Locals }
    \cup { Captured(p, v, y) : p \in Locals, v \in Locals, y \in Locals }
    \cup { CallerParam(p, v, q) : p \in Locals, v \in Locals, q \in Locals }
    \cup { Letfun("f", "x", Add(Name("x"), int(1)), App(Name("f"), int(41))),
           App(int(5), int(10)), Name("x"),
           Let("x", int(10), Add(Name("x"), int(5))),
           Let("x", Name("x"), Name("x")),
           Let("x", int(1), Let("y", Let("x", int(2), Name("x")), Add(Name("x"), Name("y")))),
           Letfun("f", "x", Name("x"), Eq(Name("f"), Name("f"))),
           Letfun("f", "x", Name("x"), Eq(Name("f"), int(0))),
           Letfun("f", "x", Name("x"), Letfun("g", "x", Name("x"), Eq(Name("f"), Name("g")))),
           Letfun("f", "x", Name("x"), Eq(Name("f"), Letfun("f", "x", Name("x"), Name("f")))),
           Letfun("f", "x", Name("x"), Eq(Name("f"), Letfun("f", "y", Name("x"), Name("f")))),
           Letfun("f", "x", Name("x"), Show(Name("f"))) }


AssignPrograms ==
    { Assign(a, e) : a \in {"x", "y"}, e \in {int(5), Show(int(1)), Read} }
    \cup { Let("x", int(1), SeqE(Assign(a, e), Name(b))) :
             a \in {"x", "y"}, b \in {"x", "y"},
             e \in {int(2), bool(TRUE), Show(int(3)), Name("x"), Name("y")} }
    \cup { Letfun("f", "x", SeqE(Assign(a, int(7)), Name("x")), App(Name("f"), int(0))) :
             a \in {"x", "y", "f"} }
    \cup { Let("x", int(1), SeqE(Assign("x", int(2)), Let("y", int(0), Assign(a, int(3))))) :
             a \in {"x", "y", "n"} }
    \cup { Let("x", int(1), SeqE(Assign("x", int(2)), SeqE(Assign("x", int(3)), Name("x")))),
           Letfun("f", "n", Assign("x", int(1)),
                  Let("x", int(0), SeqE(Assign("x", int(2)), App(Name("f"), int(0))))),
           Let("x", bool(TRUE), And(Assign("x", bool(FALSE)), Name("x"))),
           Let("x", int(1), Add(Assign("x", int(2)), Assign("y", int(3)))),
           Let("x", int(1), Assign("x", Assign("y", int(2)))),
           Let("x", int(1), Assign("x", Neg(Name("y")))),
           Let("x", int(1), SeqE(Assign("x", int(2)), Assign("y", int(3)))),
           Let("x", int(1), If(Eq(Assign("x", int(2)), int(2)), Assign("n", int(3)), Name("x"))) }

CmpOperands == { int(1), Show(int(1)), Read, Show(Read) }

ChainPrograms ==
    { Eq(<<c, a, b>>, d) : c \in {"Eq", "Lt"}, a \in CmpOperands, b \in CmpOperands,
                           d \in CmpOperands }
    \cup { SeqE(first, Eq(<<c, a, int(1)>>, d)) :
             first \in {Show(int(2)), Read, int(0)}, c \in {"Eq", "Lt"},
             a \in CmpOperands, d \in CmpOperands }
    \cup { Eq(d, <<c, a, b>>) : c \in {"Eq", "Lt"}, a \in CmpOperands, b \in {int(1)},
                                d \in {bool(TRUE), Show(bool(FALSE))} }
    \cup { Eq(Eq(int(1), int(1)), bool(TRUE)),
           Let("x", int(0),
               SeqE(Assign("x", int(1)),
                    Eq(Lt(Assign("x", int(2)), Show(Name("x"))), Read))) }

Programs ==
    BinaryPrograms \cup UnaryPrograms \cup DivPrograms \cup ReplacePrograms
    \cup IfPrograms \cup FactPrograms \cup ScopePrograms \cup AssignPrograms
    \cup ChainPrograms

\* what standard input can hold: at most MaxInput lines
Lines == { <<"int", 7>>, <<"text">> }

RECURSIVE SeqsUpTo(_)
SeqsUpTo(k) ==
    IF k = 0 THEN { <<>> }
    ELSE SeqsUpTo(k - 1)
         \cup { Append(q, l) : q \in { z \in SeqsUpTo(k - 1) : Len(z) = k - 1 }, l \in Lines }

Inputs == SeqsUpTo(MaxInput)

----------------------------------------------------------------------------
(* The driver: parse_and_run evaluates one program in a new process *)

\* eval(ast): env and store are None, so both start as new empty dicts; the
\* environment is the only dict on the heap
Start(isatty, input) ==
    [store |-> EmptyDict, heap |-> << EmptyDict >>, out |-> <<>>,
     stdin |-> input, tty |-> isatty, log |-> <<>>]

RootEnv == 1

Init ==
    /\ prog \in Programs
    /\ tty \in BOOLEAN
    /\ stdin \in Inputs
    /\ pc = "parsed"
    /\ result = Ret(Absent, Start(tty, stdin))

\* result = eval(ast), which returns a value or raises
Evaluate ==
    /\ pc = "parsed"
    /\ result' = Eval(prog, RootEnv, Start(tty, stdin))
    /\ pc' = IF IsErr(result'.val) THEN "raised" ELSE "returned"
    /\ UNCHANGED <<prog, tty, stdin>>

Next == Evaluate

Spec == Init /\ [][Next]_vars

Done == pc # "parsed"


----------------------------------------------------------------------------
(* Notation for the properties *)

\* the program's evaluation of e on its own, from the start
Run(e) == Eval(e, RootEnv, Start(tty, stdin))

\* what evaluating e in state st prints
Emits(e, st) == Eval(e, RootEnv, [st EXCEPT !.out = <<>>]).st.out

\* the records of one kind in the log of the finished evaluation
Events(kind) ==
    { result.st.log[i] : i \in { j \in 1..Len(result.st.log) : result.st.log[j].kind = kind } }

ChainedEq(e) == e[1] = "Eq" /\ e[2][1] \in {"Eq", "Lt"}

RECURSIVE Factorial(_)
Factorial(k) == IF k = 0 THEN 1 ELSE k * Factorial(k - 1)

----------------------------------------------------------------------------
(* C1 *)

\* C1: for every binary form and App (an Eq rejected as a chained comparison
\* aside), with operands that evaluate without failing, what op(L, R) prints
\* is what L prints followed by what R prints; for Replace, what its three
\* operands print, in order.
C1_LeftBeforeRight ==
    Done =>
      /\ (prog[1] \in BinOps \cup {"App"} /\ ~ChainedEq(prog)) =>
            LET l == Run(prog[2])
                r == Eval(prog[3], RootEnv, l.st)
            IN  (~IsErr(l.val) /\ ~IsErr(r.val)) =>
                   result.st.out = l.st.out \o Emits(prog[3], l.st)
      /\ (prog[1] = "Replace") =>
            LET s == Run(prog[2])
                t == Eval(prog[3], RootEnv, s.st)
                r == Eval(prog[4], RootEnv, t.st)
            IN  (~IsErr(s.val) /\ ~IsErr(t.val) /\ ~IsErr(r.val)) =>
                   result.st.out = s.st.out \o Emits(prog[3], s.st) \o Emits(prog[4], t.st)

----------------------------------------------------------------------------
(* C2 *)

\* C2: Add, Sub, Mul, Div of two literals, and Neg of one, fail with
\* TypeError whenever a literal is not an Int.
C2_ArithmeticRequiresInt ==
    Done =>
      /\ (prog[1] \in {"Add", "Sub", "Mul", "Div"} /\ prog[2][1] = "Lit" /\ prog[3][1] = "Lit"
          /\ (Tag(prog[2][2]) # "Int" \/ Tag(prog[3][2]) # "Int"))
            => (IsErr(result.val) /\ result.val[2] = "TypeError")
      /\ (prog[1] = "Neg" /\ prog[2][1] = "Lit" /\ Tag(prog[2][2]) # "Int")
            => (IsErr(result.val) /\ result.val[2] = "TypeError")


----------------------------------------------------------------------------
(* C3 *)

\* C3: the frame a function body runs in is the FunDef's captured environment
\* with the parameter bound to the argument, whatever the caller's
\* environment holds; the argument is the caller's value; a body that reads a
\* name bound only by the caller's Let or by a later function's parameter
\* fails with NameError "is not defined".
C3_LexicalScope ==
    Done =>
      /\ \A ev \in Events("App") :
            ev.frame = [ev.captured EXCEPT ![ev.fn[2]] = ev.arg]
      /\ \A p \in Locals, v \in Locals, y \in Locals :
            /\ prog = CallerLet(p, v, y) =>
                  result.val = IF v = p THEN IntV(0) ELSE NameErrorUndefined
            /\ prog = Captured(p, v, y) =>
                  result.val = IF v = p THEN IntV(2) ELSE IntV(1)
            /\ prog = CallerParam(p, v, y) =>
                  result.val = IF v = p THEN IntV(0) ELSE NameErrorUndefined

\* a body reads y, which only the caller's Let binds, and fails
C3_Witness ==
    /\ Done
    /\ prog = CallerLet("x", "y", "y")
    /\ result.val = NameErrorUndefined
    /\ \E ev \in Events("App") : ev.frame["x"] = IntV(0) /\ ev.frame["y"] = Absent

----------------------------------------------------------------------------
(* C4 *)

\* C4: the environment captured by the FunDef that Letfun binds to name maps
\* name to that same FunDef; in the frame of every call of it, at every
\* depth, name is still that FunDef (unless the parameter has the same
\* name); the factorial program applied to k returns k!.
C4_SelfReference ==
    Done =>
      /\ \A lf \in Events("Letfun") :
            /\ result.st.heap[lf.fn[4]][lf.name] = lf.fn
            /\ \A ev \in Events("App") :
                  (ev.fn = lf.fn /\ lf.name # lf.fn[2]) => ev.frame[lf.name] = lf.fn
      /\ \A k \in 0..MaxFact : prog = Fact(k) => result.val = IntV(Factorial(k))

\* the factorial of MaxFact, through MaxFact + 1 calls
C4_Witness ==
    /\ Done
    /\ prog = Fact(MaxFact)
    /\ result.val = IntV(Factorial(MaxFact))
    /\ \E seen \in SUBSET Events("App") : Cardinality(seen) > MaxFact

----------------------------------------------------------------------------
(* C5 *)

\* C5: when a Let, a Letfun or an App returns or raises, every environment
\* that existed when it was entered (the one it was called with and the
\* captured environment of every existing FunDef among them) holds exactly
\* what it held then; the root environment is empty at the end.
C5_CopyOnExtend ==
    Done =>
      /\ \A ev \in Events("Scope") :
            \A i \in 1..Len(ev.before) : ev.after[i] = ev.before[i]
      /\ result.st.heap[RootEnv] = EmptyDict

\* a Let inside a Let body of the same name has returned, and so has a call
C5_Witness ==
    /\ Done
    /\ prog = Captured("x", "y", "y")
    /\ result.val = IntV(1)
    /\ \E ev \in Events("Scope") : ev.form = "App" /\ Len(ev.after) > Len(ev.before)
    /\ \E ev \in Events("Scope") : ev.form = "Let" /\ ev.env # RootEnv

----------------------------------------------------------------------------
(* C6 *)

\* C6: Let(x, v0, Seq(Assign(x, Lit(v)), Name(x))) evaluates to v.
C6_ReadAfterAssign ==
    (Done /\ prog[1] = "Let" /\ prog[4][1] = "Seq"
          /\ prog[4][2][1] = "Assign" /\ prog[4][2][2] = prog[2]
          /\ prog[4][2][3][1] = "Lit" /\ prog[4][3] = Name(prog[2]))
       => result.val = prog[4][2][3][2]

----------------------------------------------------------------------------
(* C7 *)

\* C7: And(L, R) and Or(L, R) whose operands evaluate without failing print
\* what L prints followed by what R prints, each once, and leave the state
\* that evaluating L and then R leaves, whatever the values of L and R.
C7_AndOrStrict ==
    (Done /\ prog[1] \in {"And", "Or"}) =>
       LET l == Run(prog[2])
           r == Eval(prog[3], RootEnv, l.st)
       IN  (~IsErr(l.val) /\ ~IsErr(r.val)) =>
              /\ result.st.out = Run(prog[2]).st.out \o Emits(prog[3], l.st)
              /\ result.st = r.st

\* And with a false left operand still prints its right operand's Show
C7_Witness ==
    /\ Done
    /\ prog = And(SeqE(Show(int(1)), bool(FALSE)), Show(bool(TRUE)))
    /\ result.val = BoolV(FALSE)
    /\ result.st.out = << IntV(1), BoolV(TRUE) >>

----------------------------------------------------------------------------
(* C8 *)

\* C8: an Eq whose left child is an Eq or Lt node raises SyntaxError "Chained
\* comparisons are not allowed" and leaves the state it was entered with:
\* nothing printed, nothing read, the store and the heap as they were.
C8_ChainedComparison ==
    Done =>
      /\ ChainedEq(prog) => result = Ret(ChainedComparison, Start(tty, stdin))
      /\ (prog[1] = "Seq" /\ ChainedEq(prog[3]) /\ ~IsErr(Run(prog[2]).val)) =>
            result = Ret(ChainedComparison, Run(prog[2]).st)
      /\ (prog[1] = "Let" /\ prog[4][1] = "Seq" /\ ChainedEq(prog[4][3])) =>
            /\ result.val = ChainedComparison
            /\ result.st.out = <<>>
            /\ result.st.stdin = stdin
            /\ Events("Read") = {}
            /\ \A ev \in Events("Assign") : ev.val = IntV(1)

\* operands that would print and read, on a terminal with a line waiting
C8_Witness ==
    /\ Done
    /\ prog = Eq(Lt(Show(int(1)), Read), Show(Read))
    /\ tty /\ stdin # <<>>
    /\ result.val = ChainedComparison
    /\ result.st.stdin = stdin /\ result.st.out = <<>>

----------------------------------------------------------------------------
(* C9 *)

\* C9: started from the empty environment and store, every Assign evaluated
\* for a name its environment does not bind raises NameError "Cannot assign
\* to undeclared variable"; an Assign at the top of the program does so
\* without evaluating its right-hand side.
C9_UndeclaredAssignment ==
    Done =>
      /\ \A ev \in Events("Assign") : ~ev.declared => ev.val = NameErrorUndeclared
      /\ prog[1] = "Assign" =>
            /\ result.val = NameErrorUndeclared
            /\ result.st.out = <<>> /\ result.st.stdin = stdin

\* a function body assigns x, which its caller declared and assigned
C9_Witness ==
    /\ Done
    /\ prog = Letfun("f", "n", Assign("x", int(1)),
                     Let("x", int(0), SeqE(Assign("x", int(2)), App(Name("f"), int(0)))))
    /\ result.val = NameErrorUndeclared
    /\ \E ev \in Events("Assign") : ev.declared /\ ev.val = IntV(2)
    /\ \E ev \in Events("Assign") : ~ev.declared

----------------------------------------------------------------------------
(* C10 *)

\* C10: Div(Lit(a), Lit(b)) on Int literals raises ZeroDivisionError when
\* b = 0 and otherwise returns the Int q with q*b <= a < q*b + b (b > 0) or
\* q*b >= a > q*b + b (b < 0): the quotient rounded toward negative infinity.
C10_FloorDivision ==
    \A a \in -MaxLit..MaxLit, b \in -MaxLit..MaxLit :
       (Done /\ prog = Div(int(a), int(b))) =>
          IF b = 0 THEN result.val = ZeroDivisionError
          ELSE /\ Tag(result.val) = "Int"
               /\ LET q == result.val[2]
                  IN  /\ b > 0 => (q * b <= a /\ a < q * b + b)
                      /\ b < 0 => (q * b >= a /\ a > q * b + b)

\* an inexact quotient of operands of opposite signs
C10_Witness ==
    /\ Done
    /\ prog = Div(int(-3), int(2))
    /\ result.val = IntV(-2)

=============================================================================
